---- MODULE Spec2Model ----
(***************************************************************************)
(* WizardLightYearsCalculator: the /calculate-distance handler (app.py),   *)
(* the fetch-or-cache resolution get_or_fetch_system, the sqlite-backed    *)
(* Database (database.py), the ESIClient (esi_client.py) and the distance  *)
(* function (calculator.py), as a state machine of concurrent request      *)
(* handlers over one shared systems table.                                 *)
(***************************************************************************)
EXTENDS Integers, Sequences, FiniteSets, TLC

\* ---------------------------------------------------------------- config.py
MIN_SYSTEM_ID == 30000000
MAX_SYSTEM_ID == 31000000

\* -------------------------------------------------------------- model bounds
\* largest value the wall clock takes
MaxClock == 1
\* number of requests received over a run
MaxRequests == 2

\* validate_system_id is called on its own with ids up to MaxOffset away from
\* either end of the valid range
MaxOffset == 12

\* calculate_distance is called on its own with points up to MaxScale light
\* years from the origin
MaxScale == 5

\* largest whole distance looked for between points with whole coordinates
MaxRoot == 100

\* concurrent handler threads of the Flask server
Requests == {"t1", "t2"}

\* system ids the upstream service may put in a payload: the two ends of the
\* valid range and one id outside it
UpstreamIds == {MIN_SYSTEM_ID, MAX_SYSTEM_ID, MAX_SYSTEM_ID + 1}

\* ------------------------------------------------------------ request values
\* JSON values a client may send for system_id_1 / system_id_2
JNull == [t |-> "null", v |-> 0, s |-> <<>>]
JInt(n) == [t |-> "int", v |-> n, s |-> <<>>]
\* the float n + 0.5
JFloat(n) == [t |-> "float", v |-> n, s |-> <<>>]
JStr(chars) == [t |-> "str", v |-> 0, s |-> chars]
\* true / false: in Python a bool is an int, True == 1 and False == 0
JBool(b) == [t |-> "bool", v |-> IF b THEN 1 ELSE 0, s |-> <<>>]

Digits == <<"0", "1", "2", "3", "4", "5", "6", "7", "8", "9">>

IsDigit(c) == \E i \in 1..10 : Digits[i] = c

DigitVal(c) == (CHOOSE i \in 1..10 : Digits[i] = c) - 1

RECURSIVE DecimalValue(_)
DecimalValue(chars) ==
    IF chars = <<>> THEN 0
    ELSE 10 * DecimalValue(SubSeq(chars, 1, Len(chars) - 1)) + DigitVal(chars[Len(chars)])

\* Python int(x) on a JSON value: [ok, v]; ok = FALSE is ValueError / TypeError
PyInt(x) ==
    CASE x.t \in {"int", "bool"} -> [ok |-> TRUE, v |-> x.v]
      [] x.t = "float" -> [ok |-> TRUE, v |-> x.v]
      [] x.t = "str" ->
            IF x.s # <<>> /\ \A i \in 1..Len(x.s) : IsDigit(x.s[i])
            THEN [ok |-> TRUE, v |-> DecimalValue(x.s)]
            ELSE [ok |-> FALSE, v |-> 0]
      [] OTHER -> [ok |-> FALSE, v |-> 0]

\* request.args.get(name, type=int): None when absent or not convertible
ArgsGetInt(x) ==
    IF x.t = "null" THEN JNull
    ELSE IF PyInt(x).ok THEN JInt(PyInt(x).v) ELSE JNull

JsonInputs ==
    {JNull, JStr(<<"a", "b", "c">>), JStr(<<"3", "1", "0", "0", "0", "0", "0", "0">>),
     JInt(MIN_SYSTEM_ID - 1), JInt(MIN_SYSTEM_ID), JFloat(MAX_SYSTEM_ID),
     JInt(MAX_SYSTEM_ID + 1)}

QueryInputs ==
    {JNull, JStr(<<"a", "b", "c">>), JStr(<<"3", "0", "0", "0", "0", "0", "0", "0">>),
     JStr(<<"3", "1", "0", "0", "0", "0", "0", "1">>)}

\* ------------------------------------------------------------------ messages
\* exception and response texts are sequences of words
ContainsSeq(msg, pat) ==
    \E i \in 1..(Len(msg) - Len(pat) + 1) : SubSeq(msg, i, i + Len(pat) - 1) = pat

\* str.lower() on one word
LowerWord(w) ==
    CASE w = "System" -> "system"
      [] w = "ID" -> "id"
      [] w = "Failed" -> "failed"
      [] w = "ESI" -> "esi"
      [] w = "Invalid" -> "invalid"
      [] w = "Connection" -> "connection"
      [] w = "Network" -> "network"
      [] w = "UNIQUE" -> "unique"
      [] OTHER -> w

Lower(msg) == [i \in 1..Len(msg) |-> LowerWord(msg[i])]

NoExc == [type |-> "none", msg |-> <<>>]

Exc(type, msg) == [type |-> type, msg |-> msg]

\* --------------------------------------------------------------- database.py
\* db.get_system returns None
NoRow == [absent |-> TRUE]

EmptyStore == [k \in UpstreamIds |-> NoRow]

\* Database.get_system: SELECT ... WHERE system_id = ? then fetchone()
get_system(s, system_id) ==
    IF system_id \in DOMAIN s THEN s[system_id] ELSE NoRow

IntegrityError ==
    Exc("IntegrityError", <<"UNIQUE", "constraint", "failed", ":", "systems.system_id">>)

\* mutant of insert_system: the x and y columns are bound in the wrong order
insert_system_swapped(s, system_id, name, x, y, z, now) ==
    IF system_id \in DOMAIN s /\ s[system_id] # NoRow
    THEN [ok |-> FALSE, exc |-> IntegrityError, store |-> s]
    ELSE [ok |-> TRUE, exc |-> NoExc,
          store |-> [s EXCEPT ![system_id] =
                        [system_id |-> system_id, name |-> name, x |-> y, y |-> x, z |-> z,
                         added |-> now, last_update |-> now]]]

\* mutant of insert_system: last_update is taken from a second, later clock read
insert_system_two_reads(s, system_id, name, x, y, z, now) ==
    IF system_id \in DOMAIN s /\ s[system_id] # NoRow
    THEN [ok |-> FALSE, exc |-> IntegrityError, store |-> s]
    ELSE [ok |-> TRUE, exc |-> NoExc,
          store |-> [s EXCEPT ![system_id] =
                        [system_id |-> system_id, name |-> name, x |-> x, y |-> y, z |-> z,
                         added |-> now, last_update |-> now + 1]]]

\* mutant of insert_system: INSERT OR REPLACE, an existing row is overwritten
insert_or_replace(s, system_id, name, x, y, z, now) ==
    [ok |-> TRUE, exc |-> NoExc,
     store |-> [s EXCEPT ![system_id] =
                   [system_id |-> system_id, name |-> name, x |-> x, y |-> y, z |-> z,
                    added |-> now, last_update |-> now]]]

\* Database.insert_system: INSERT with added = last_update = now; system_id is
\* the PRIMARY KEY, a second row for it raises sqlite3.IntegrityError
insert_system(s, system_id, name, x, y, z, now) ==
    IF get_system(s, system_id) # NoRow
    THEN [ok |-> FALSE, exc |-> IntegrityError, store |-> s]
    ELSE [ok |-> TRUE, exc |-> NoExc,
          store |-> [s EXCEPT ![system_id] =
                        [system_id |-> system_id, name |-> name, x |-> x, y |-> y, z |-> z,
                         added |-> now, last_update |-> now]]]

\* mutant of update_system_timestamp: the timestamp written is one tick behind
update_system_timestamp_behind(s, system_id, now) ==
    IF system_id \notin DOMAIN s \/ s[system_id] = NoRow THEN s
    ELSE [s EXCEPT ![system_id].last_update = now - 1]

\* Database.update_system_timestamp: UPDATE systems SET last_update = ? WHERE
\* system_id = ? (no row matched: nothing changes)
update_system_timestamp(s, system_id, now) ==
    IF get_system(s, system_id) = NoRow THEN s
    ELSE [s EXCEPT ![system_id].last_update = now]

\* ---------------------------------------------------------- natural numbers
\* natural numbers of any size, the exact values that float arithmetic
\* rounds, as sequences of limbs of LimbBits bits, least significant first
LimbBits == 14
Base == 2 ^ LimbBits

Limb(a, i) == IF i <= Len(a) THEN a[i] ELSE 0

RECURSIVE Trim(_)
Trim(a) ==
    IF a = <<>> THEN a
    ELSE IF a[Len(a)] = 0 THEN Trim(SubSeq(a, 1, Len(a) - 1)) ELSE a

RECURSIVE NatFromInt(_)
NatFromInt(n) == IF n = 0 THEN <<>> ELSE <<n % Base>> \o NatFromInt(n \div Base)

RECURSIVE AddFrom(_, _, _, _)
AddFrom(a, b, i, carry) ==
    IF i > Len(a) /\ i > Len(b)
    THEN IF carry = 0 THEN <<>> ELSE <<carry>>
    ELSE LET t == Limb(a, i) + Limb(b, i) + carry
         IN  <<t % Base>> \o AddFrom(a, b, i + 1, t \div Base)

NatAdd(a, b) == AddFrom(a, b, 1, 0)

RECURSIVE SubFrom(_, _, _, _)
SubFrom(a, b, i, borrow) ==
    IF i > Len(a) THEN <<>>
    ELSE LET t == a[i] - Limb(b, i) - borrow
         IN  IF t < 0 THEN <<t + Base>> \o SubFrom(a, b, i + 1, 1)
             ELSE <<t>> \o SubFrom(a, b, i + 1, 0)

\* a - b for a >= b
NatSub(a, b) == Trim(SubFrom(a, b, 1, 0))

RECURSIVE CmpFrom(_, _, _)
CmpFrom(a, b, i) ==
    IF i = 0 THEN 0
    ELSE IF a[i] < b[i] THEN -1
    ELSE IF a[i] > b[i] THEN 1
    ELSE CmpFrom(a, b, i - 1)

\* -1, 0 or 1 as a < b, a = b or a > b
NatCmp(a, b) ==
    IF Len(a) < Len(b) THEN -1
    ELSE IF Len(a) > Len(b) THEN 1
    ELSE CmpFrom(a, b, Len(a))

RECURSIVE MulLimbFrom(_, _, _, _)
MulLimbFrom(a, d, i, carry) ==
    IF i > Len(a)
    THEN IF carry = 0 THEN <<>> ELSE <<carry>>
    ELSE LET t == a[i] * d + carry
         IN  <<t % Base>> \o MulLimbFrom(a, d, i + 1, t \div Base)

RECURSIVE NatMul(_, _)
NatMul(a, b) ==
    IF a = <<>> \/ b = <<>> THEN <<>>
    ELSE LET rest == NatMul(a, Tail(b))
         IN  NatAdd(MulLimbFrom(a, b[1], 1, 0),
                    IF rest = <<>> THEN <<>> ELSE <<0>> \o rest)

RECURSIVE BitLenInt(_)
BitLenInt(d) == IF d = 0 THEN 0 ELSE 1 + BitLenInt(d \div 2)

BitLen(a) ==
    IF a = <<>> THEN 0 ELSE LimbBits * (Len(a) - 1) + BitLenInt(a[Len(a)])

Zeros(q) == [i \in 1..q |-> 0]

\* a * 2^k
ShiftLeft(a, k) ==
    IF a = <<>> THEN a
    ELSE Zeros(k \div LimbBits) \o MulLimbFrom(a, 2 ^ (k % LimbBits), 1, 0)

\* a \div 2^k
ShiftRight(a, k) ==
    LET q == k \div LimbBits
        r == k % LimbBits
        n == Len(a) - q
    IN  IF n <= 0 THEN <<>>
        ELSE Trim([i \in 1..n |->
                    (a[q + i] \div (2 ^ r))
                    + (Limb(a, q + i + 1) % (2 ^ r)) * (2 ^ (LimbBits - r))])

PowerOfTwo(k) == ShiftLeft(<<1>>, k)

RECURSIVE TrailingZerosInt(_)
TrailingZerosInt(d) == IF d % 2 = 1 THEN 0 ELSE 1 + TrailingZerosInt(d \div 2)

RECURSIVE TrailingZeros(_)
TrailingZeros(a) ==
    IF a[1] = 0 THEN LimbBits + TrailingZeros(Tail(a)) ELSE TrailingZerosInt(a[1])

\* floor of the square root, one bit at a time from the top
RECURSIVE ISqrtFrom(_, _, _)
ISqrtFrom(n, r, i) ==
    IF i < 0 THEN r
    ELSE LET cand == NatAdd(r, PowerOfTwo(i))
         IN  IF NatCmp(NatMul(cand, cand), n) <= 0
             THEN ISqrtFrom(n, cand, i - 1)
             ELSE ISqrtFrom(n, r, i - 1)

ISqrt(n) == ISqrtFrom(n, <<>>, (BitLen(n) + 1) \div 2)

\* floor of a / b, one bit at a time from the top
RECURSIVE NatDivFrom(_, _, _, _)
NatDivFrom(a, b, q, i) ==
    IF i < 0 THEN q
    ELSE LET cand == NatAdd(q, PowerOfTwo(i))
         IN  IF NatCmp(NatMul(cand, b), a) <= 0
             THEN NatDivFrom(a, b, cand, i - 1)
             ELSE NatDivFrom(a, b, q, i - 1)

NatDiv(a, b) == NatDivFrom(a, b, <<>>, BitLen(a) - BitLen(b))

\* ------------------------------------------------------------ Python floats
\* a float is an IEEE 754 binary64 value s * m * 2^e: s the sign (0 for zero),
\* m an odd natural number of at most MantissaBits bits. Values stay well
\* inside the exponent range: no overflow, underflow, infinity or NaN.
MantissaBits == 53
FZero == [s |-> 0, m |-> <<>>, e |-> 0]

\* the float s * n * 2^e, for n of at most MantissaBits bits
Canon(s, n, e) ==
    IF n = <<>> THEN FZero
    ELSE LET tz == TrailingZeros(n)
         IN  [s |-> s, m |-> ShiftRight(n, tz), e |-> e + tz]

\* s * n * 2^e rounded to the nearest float, ties to the even mantissa
Round(s, n, e) ==
    LET sh == BitLen(n) - MantissaBits
    IN  IF sh <= 0 THEN Canon(s, n, e)
        ELSE LET q == ShiftRight(n, sh)
                 c == NatCmp(NatSub(n, ShiftLeft(q, sh)), PowerOfTwo(sh - 1))
                 up == c > 0 \/ (c = 0 /\ q[1] % 2 = 1)
             IN  Canon(s, IF up THEN NatAdd(q, <<1>>) ELSE q, e + sh)

\* the same for a value strictly between n and n + 1 (in units of 2^e)
RoundInexact(s, n, e) == Round(s, NatAdd(ShiftLeft(n, 1), <<1>>), e - 1)

\* the float of a whole number
Float(i) ==
    IF i < 0 THEN Canon(-1, NatFromInt(-i), 0) ELSE Canon(1, NatFromInt(i), 0)

\* -a
FNeg(a) == [a EXCEPT !.s = -a.s]

Min(i, j) == IF i < j THEN i ELSE j

\* a - b, correctly rounded
FSub(a, b) ==
    IF b.s = 0 THEN a
    ELSE IF a.s = 0 THEN FNeg(b)
    ELSE LET e == Min(a.e, b.e)
             an == ShiftLeft(a.m, a.e - e)
             bn == ShiftLeft(b.m, b.e - e)
             c == NatCmp(an, bn)
         IN  IF a.s # b.s THEN Round(a.s, NatAdd(an, bn), e)
             ELSE IF c = 0 THEN FZero
             ELSE IF c > 0 THEN Round(a.s, NatSub(an, bn), e)
             ELSE Round(-a.s, NatSub(bn, an), e)

\* a + b, correctly rounded
FAdd(a, b) == FSub(a, FNeg(b))

\* a * b, correctly rounded
FMul(a, b) ==
    IF a.s = 0 \/ b.s = 0 THEN FZero
    ELSE Round(a.s * b.s, NatMul(a.m, b.m), a.e + b.e)

\* math.sqrt(a) for a >= 0, correctly rounded: exact for a perfect square,
\* else rounded from MantissaBits + 2 bits of the root
FSqrt(a) ==
    IF a.s = 0 THEN FZero
    ELSE LET n0 == IF a.e % 2 = 1 THEN ShiftLeft(a.m, 1) ELSE a.m
             e0 == IF a.e % 2 = 1 THEN a.e - 1 ELSE a.e
             r0 == ISqrt(n0)
             room == 2 * (MantissaBits + 2) - BitLen(n0)
             k == IF room <= 0 THEN 0 ELSE room + (room % 2)
         IN  IF NatMul(r0, r0) = n0 THEN Canon(1, r0, e0 \div 2)
             ELSE RoundInexact(1, ISqrt(ShiftLeft(n0, k)), (e0 - k) \div 2)

\* a / b for b # 0, correctly rounded
FDiv(a, b) ==
    IF a.s = 0 THEN FZero
    ELSE LET room == MantissaBits + 2 + BitLen(b.m) - BitLen(a.m)
             k == IF room <= 0 THEN 0 ELSE room
             n == ShiftLeft(a.m, k)
             q == NatDiv(n, b.m)
             e == a.e - b.e - k
         IN  IF NatMul(q, b.m) = n THEN Round(a.s * b.s, q, e)
             ELSE RoundInexact(a.s * b.s, q, e)

\* ------------------------------------------------------------- esi_client.py
\* a complete upstream payload; constellation_id stands for the fields the
\* client does not use
FullBody(u, n, p) ==
    [system_id |-> u, name |-> n, position |-> p, constellation_id |-> 20000020]

\* the payloads the upstream service may answer with, one for each id
FullBodies ==
    {FullBody(MIN_SYSTEM_ID, "Jita", [x |-> Float(0), y |-> Float(0), z |-> Float(0)]),
     FullBody(MAX_SYSTEM_ID, "Perimeter", [x |-> Float(3), y |-> Float(4), z |-> Float(12)]),
     FullBody(MAX_SYSTEM_ID + 1, "Thera", [x |-> Float(0), y |-> Float(0), z |-> Float(0)])}

\* a payload that lacks a required field
PartialBodies ==
    {[system_id |-> MIN_SYSTEM_ID, name |-> "Jita", position |-> [x |-> Float(0), y |-> Float(0)]]}

NoBody == [absent |-> TRUE]

\* what requests.get(...) does: returns a response with a status and a body,
\* or raises Timeout / ConnectionError.  json = "ok": the body parses;
\* "bad_requests": response.json() raises requests' JSONDecodeError (a
\* RequestException); "bad_value": it raises a plain ValueError (requests
\* before 2.27)
Upstream(kind, status, json, body, detail) ==
    [kind |-> kind, status |-> status, json |-> json, body |-> body, detail |-> detail]

NoUpstream == Upstream("none", 0, "ok", NoBody, <<>>)

UpstreamOutcomes ==
    {Upstream("response", 200, "ok", b, <<>>) : b \in FullBodies \cup PartialBodies}
    \cup {Upstream("response", 200, j, NoBody, <<"Expecting", "value">>) :
            j \in {"bad_requests", "bad_value"}}
    \cup {Upstream("response", st, "ok", NoBody, <<ToString(st), "Error">>) : st \in {404, 500}}
    \cup {Upstream("timeout", 0, "ok", NoBody, <<"Connection", "timeout">>),
          Upstream("connection", 0, "ok", NoBody, <<"Network", "unreachable">>)}

\* the first key the extraction at esi_client.py:41-47 fails on, "" if none
MissingKey(body) ==
    IF "system_id" \notin DOMAIN body THEN "system_id"
    ELSE IF "name" \notin DOMAIN body THEN "name"
    ELSE IF "position" \notin DOMAIN body THEN "position"
    ELSE IF "x" \notin DOMAIN body.position THEN "x"
    ELSE IF "y" \notin DOMAIN body.position THEN "y"
    ELSE IF "z" \notin DOMAIN body.position THEN "z"
    ELSE ""

NoData == [absent |-> TRUE]

Raise(e) == [ok |-> FALSE, data |-> NoData, exc |-> e]

NotFoundError(system_id) ==
    Exc("ValueError", <<"System", "ID", ToString(system_id), "not", "found">>)

FetchError(detail) ==
    Exc("RuntimeError", <<"Failed", "to", "fetch", "system", "data", "from", "ESI", ":">> \o detail)

FormatError(detail) ==
    Exc("RuntimeError", <<"Invalid", "response", "format", "from", "ESI", ":">> \o detail)

\* mutant of get_system_info: the record keeps a field of the payload that the
\* client has no use for
get_system_info_extra(system_id, up) ==
    IF up.kind \in {"timeout", "connection"} THEN Raise(FetchError(up.detail))
    ELSE IF up.status >= 400
    THEN IF up.status = 404 THEN Raise(NotFoundError(system_id))
         ELSE Raise(Exc("HTTPError", up.detail))
    ELSE IF up.json = "bad_requests" THEN Raise(FetchError(up.detail))
    ELSE IF up.json = "bad_value" THEN Raise(FormatError(up.detail))
    ELSE IF MissingKey(up.body) # "" THEN Raise(FormatError(<<MissingKey(up.body)>>))
    ELSE [ok |-> TRUE, exc |-> NoExc,
          data |-> [system_id |-> up.body.system_id, name |-> up.body.name,
                    x |-> up.body.position.x, y |-> up.body.position.y,
                    z |-> up.body.position.z,
                    constellation_id |-> up.body.constellation_id]]

\* mutant of get_system_info: no except clause for RequestException, a timeout
\* or connection failure leaves as the requests exception it is
get_system_info_unwrapped(system_id, up) ==
    IF up.kind \in {"timeout", "connection"} THEN Raise(Exc("RequestException", up.detail))
    ELSE IF up.status >= 400
    THEN IF up.status = 404 THEN Raise(NotFoundError(system_id))
         ELSE Raise(Exc("HTTPError", up.detail))
    ELSE IF up.json = "bad_requests" THEN Raise(FetchError(up.detail))
    ELSE IF up.json = "bad_value" THEN Raise(FormatError(up.detail))
    ELSE IF MissingKey(up.body) # "" THEN Raise(FormatError(<<MissingKey(up.body)>>))
    ELSE [ok |-> TRUE, exc |-> NoExc,
          data |-> [system_id |-> up.body.system_id, name |-> up.body.name,
                    x |-> up.body.position.x, y |-> up.body.position.y,
                    z |-> up.body.position.z]]

\* mutant of get_system_info: every HTTP error status other than 404 is
\* wrapped like a transport failure
get_system_info_wrapped(system_id, up) ==
    IF up.kind \in {"timeout", "connection"} THEN Raise(FetchError(up.detail))
    ELSE IF up.status >= 400
    THEN IF up.status = 404 THEN Raise(NotFoundError(system_id))
         ELSE Raise(FetchError(up.detail))
    ELSE IF up.json = "bad_requests" THEN Raise(FetchError(up.detail))
    ELSE IF up.json = "bad_value" THEN Raise(FormatError(up.detail))
    ELSE IF MissingKey(up.body) # "" THEN Raise(FormatError(<<MissingKey(up.body)>>))
    ELSE [ok |-> TRUE, exc |-> NoExc,
          data |-> [system_id |-> up.body.system_id, name |-> up.body.name,
                    x |-> up.body.position.x, y |-> up.body.position.y,
                    z |-> up.body.position.z]]

\* ESIClient.get_system_info on the outcome `up` of its one requests.get
get_system_info(system_id, up) ==
    IF up.kind \in {"timeout", "connection"} THEN Raise(FetchError(up.detail))
    ELSE IF up.status >= 400
    THEN IF up.status = 404 THEN Raise(NotFoundError(system_id))
         ELSE Raise(Exc("HTTPError", up.detail))
    ELSE IF up.json = "bad_requests" THEN Raise(FetchError(up.detail))
    ELSE IF up.json = "bad_value" THEN Raise(FormatError(up.detail))
    ELSE IF MissingKey(up.body) # "" THEN Raise(FormatError(<<MissingKey(up.body)>>))
    ELSE [ok |-> TRUE, exc |-> NoExc,
          data |-> [system_id |-> up.body.system_id, name |-> up.body.name,
                    x |-> up.body.position.x, y |-> up.body.position.y,
                    z |-> up.body.position.z]]

\* -------------------------------------------------------------- calculator.py
RECURSIVE PowerOfTen(_)
PowerOfTen(k) == IF k = 0 THEN <<1>> ELSE MulLimbFrom(PowerOfTen(k - 1), 10, 1, 0)

\* config.LIGHTYEAR_IN_METERS = 9.46e15 = 946 * 10^13
LIGHTYEAR_IN_METERS == Round(1, NatMul(NatFromInt(946), PowerOfTen(13)), 0)

\* mutant of calculate_distance: the z difference is z2 + z1
calculate_distance_sum_z(s1, s2) ==
    LET dx == FSub(s2.x, s1.x)
        dy == FSub(s2.y, s1.y)
        dz == FAdd(s2.z, s1.z)
        distance_meters ==
            FSqrt(FAdd(FAdd(FMul(dx, dx), FMul(dy, dy)), FMul(dz, dz)))
    IN  [distance_meters |-> distance_meters,
         distance_lightyears |-> FDiv(distance_meters, LIGHTYEAR_IN_METERS)]

\* mutant of calculate_distance: a system behind the first on the x axis
\* counts as level with it
calculate_distance_one_sided(s1, s2) ==
    LET dx == IF FSub(s2.x, s1.x).s < 0 THEN FZero ELSE FSub(s2.x, s1.x)
        dy == FSub(s2.y, s1.y)
        dz == FSub(s2.z, s1.z)
        distance_meters ==
            FSqrt(FAdd(FAdd(FMul(dx, dx), FMul(dy, dy)), FMul(dz, dz)))
    IN  [distance_meters |-> distance_meters,
         distance_lightyears |-> FDiv(distance_meters, LIGHTYEAR_IN_METERS)]

\* mutant of calculate_distance: the light-year is taken as 9.461e15 metres
calculate_distance_rounded_constant(s1, s2) ==
    LET dx == FSub(s2.x, s1.x)
        dy == FSub(s2.y, s1.y)
        dz == FSub(s2.z, s1.z)
        distance_meters ==
            FSqrt(FAdd(FAdd(FMul(dx, dx), FMul(dy, dy)), FMul(dz, dz)))
    IN  [distance_meters |-> distance_meters,
         distance_lightyears |->
            FDiv(distance_meters, Round(1, NatMul(NatFromInt(9461), PowerOfTen(12)), 0))]

\* mutant of calculate_distance: the distance in the x-y plane
calculate_distance_flat(s1, s2) ==
    LET dx == FSub(s2.x, s1.x)
        dy == FSub(s2.y, s1.y)
        distance_meters == FSqrt(FAdd(FMul(dx, dx), FMul(dy, dy)))
    IN  [distance_meters |-> distance_meters,
         distance_lightyears |-> FDiv(distance_meters, LIGHTYEAR_IN_METERS)]

\* calculator.py:29-45; d ** 2 is the correctly rounded square of d
calculate_distance(s1, s2) ==
    LET x1 == s1.x  y1 == s1.y  z1 == s1.z
        x2 == s2.x  y2 == s2.y  z2 == s2.z
        dx == FSub(x2, x1)
        dy == FSub(y2, y1)
        dz == FSub(z2, z1)
        distance_meters ==
            FSqrt(FAdd(FAdd(FMul(dx, dx), FMul(dy, dy)), FMul(dz, dz)))
        distance_lightyears == FDiv(distance_meters, LIGHTYEAR_IN_METERS)
    IN  [distance_meters |-> distance_meters,
         distance_lightyears |-> distance_lightyears]

\* the coordinates calculate_distance reads from a record (calculator.py:29-30)
Position(system) == [x |-> system.x, y |-> system.y, z |-> system.z]

\* --------------------------------------------------------------------- app.py
\* mutant of validate_system_id: the two bounds are excluded
validate_system_id_exclusive(x) ==
    IF x.t \notin {"int", "bool"}
    THEN [valid |-> FALSE, msg |-> <<"System", "ID", "must", "be", "an", "integer">>]
    ELSE IF x.v <= MIN_SYSTEM_ID \/ x.v >= MAX_SYSTEM_ID
    THEN [valid |-> FALSE,
          msg |-> <<"System", "ID", "must", "be", "between", ToString(MIN_SYSTEM_ID),
                    "and", ToString(MAX_SYSTEM_ID)>>]
    ELSE [valid |-> TRUE, msg |-> <<>>]

\* app.validate_system_id on a value: (is_valid, error_message)
validate_system_id(x) ==
    IF x.t \notin {"int", "bool"}
    THEN [valid |-> FALSE, msg |-> <<"System", "ID", "must", "be", "an", "integer">>]
    ELSE IF x.v < MIN_SYSTEM_ID \/ x.v > MAX_SYSTEM_ID
    THEN [valid |-> FALSE,
          msg |-> <<"System", "ID", "must", "be", "between", ToString(MIN_SYSTEM_ID),
                    "and", ToString(MAX_SYSTEM_ID)>>]
    ELSE [valid |-> TRUE, msg |-> <<>>]

NoResponse == [status |-> 0, error |-> <<>>, body |-> [absent |-> TRUE]]

ErrorResponse(status, error) == [status |-> status, error |-> error, body |-> [absent |-> TRUE]]

\* app.py:164-180: the 200 response.  The body keeps the two positions that
\* calculate_distance was called with; its distance_meters and
\* distance_lightyears are ResponseDistance of the response
SuccessResponse(s1, s2) ==
    [status |-> 200, error |-> <<>>,
     body |-> [system_1 |-> [system_id |-> s1.system_id, name |-> s1.name],
               system_2 |-> [system_id |-> s2.system_id, name |-> s2.name],
               distance_of |-> [system1 |-> Position(s1), system2 |-> Position(s2)]]]

\* app.py:164, 176-179: distance = calculate_distance(system1, system2), whose
\* two entries the body of a 200 response carries
ResponseDistance(resp) ==
    calculate_distance(resp.body.distance_of.system1, resp.body.distance_of.system2)

\* mutant of ValidateRequest: the range check of system_id_2 is left out
ValidateRequestFirstOnly(a, b) ==
    IF a.t = "null" \/ b.t = "null"
    THEN [ok |-> FALSE, ids |-> <<0, 0>>,
          response |-> ErrorResponse(400, <<"Both", "system_id_1", "and", "system_id_2",
                                            "are", "required">>)]
    ELSE IF ~PyInt(a).ok \/ ~PyInt(b).ok
    THEN [ok |-> FALSE, ids |-> <<0, 0>>,
          response |-> ErrorResponse(400, <<"System", "IDs", "must", "be", "valid",
                                            "integers">>)]
    ELSE IF ~validate_system_id(JInt(PyInt(a).v)).valid
    THEN [ok |-> FALSE, ids |-> <<0, 0>>,
          response |-> ErrorResponse(400, <<"system_id_1", ":">>
                                            \o validate_system_id(JInt(PyInt(a).v)).msg)]
    ELSE [ok |-> TRUE, ids |-> <<PyInt(a).v, PyInt(b).v>>, response |-> NoResponse]

\* app.py:133-156 on the two extracted parameters: the 400 answer, or the two
\* integer ids to resolve
ValidateRequest(a, b) ==
    IF a.t = "null" \/ b.t = "null"
    THEN [ok |-> FALSE, ids |-> <<0, 0>>,
          response |-> ErrorResponse(400, <<"Both", "system_id_1", "and", "system_id_2",
                                            "are", "required">>)]
    ELSE IF ~PyInt(a).ok \/ ~PyInt(b).ok
    THEN [ok |-> FALSE, ids |-> <<0, 0>>,
          response |-> ErrorResponse(400, <<"System", "IDs", "must", "be", "valid",
                                            "integers">>)]
    ELSE IF ~validate_system_id(JInt(PyInt(a).v)).valid
    THEN [ok |-> FALSE, ids |-> <<0, 0>>,
          response |-> ErrorResponse(400, <<"system_id_1", ":">>
                                            \o validate_system_id(JInt(PyInt(a).v)).msg)]
    ELSE IF ~validate_system_id(JInt(PyInt(b).v)).valid
    THEN [ok |-> FALSE, ids |-> <<0, 0>>,
          response |-> ErrorResponse(400, <<"system_id_2", ":">>
                                            \o validate_system_id(JInt(PyInt(b).v)).msg)]
    ELSE [ok |-> TRUE, ids |-> <<PyInt(a).v, PyInt(b).v>>, response |-> NoResponse]

\* mutant of ExceptionResponse: every ValueError is answered 400
ExceptionResponseNoNotFound(e) ==
    IF e.type = "ValueError"
    THEN ErrorResponse(400, <<"Invalid", "system", "data">>)
    ELSE IF e.type = "RuntimeError"
    THEN IF ContainsSeq(e.msg, <<"ESI">>) \/ ContainsSeq(Lower(e.msg), <<"fetch">>)
         THEN ErrorResponse(502, <<"Unable", "to", "retrieve", "system", "information", ".",
                                   "Please", "try", "again", "later", ".">>)
         ELSE ErrorResponse(500, <<"A", "service", "error", "occurred">>)
    ELSE ErrorResponse(500, <<"An", "unexpected", "error", "occurred">>)

\* mutant of ExceptionResponse: the 502 answer carries the exception's text
ExceptionResponseLeaky(e) ==
    IF e.type = "ValueError"
    THEN IF ContainsSeq(Lower(e.msg), <<"not", "found">>)
         THEN ErrorResponse(404, <<"One", "or", "more", "system", "IDs", "not", "found",
                                   "in", "EVE", "Online", "universe">>)
         ELSE ErrorResponse(400, <<"Invalid", "system", "data">>)
    ELSE IF e.type = "RuntimeError"
    THEN IF ContainsSeq(e.msg, <<"ESI">>) \/ ContainsSeq(Lower(e.msg), <<"fetch">>)
         THEN ErrorResponse(502, <<"Unable", "to", "retrieve", "system", "information", ":">>
                                 \o e.msg)
         ELSE ErrorResponse(500, <<"A", "service", "error", "occurred">>)
    ELSE ErrorResponse(500, <<"An", "unexpected", "error", "occurred">>)

\* app.py:182-202: the except clauses of calculate_distance_endpoint
ExceptionResponse(e) ==
    IF e.type = "ValueError"
    THEN IF ContainsSeq(Lower(e.msg), <<"not", "found">>)
         THEN ErrorResponse(404, <<"One", "or", "more", "system", "IDs", "not", "found",
                                   "in", "EVE", "Online", "universe">>)
         ELSE ErrorResponse(400, <<"Invalid", "system", "data">>)
    ELSE IF e.type = "RuntimeError"
    THEN IF ContainsSeq(e.msg, <<"ESI">>) \/ ContainsSeq(Lower(e.msg), <<"fetch">>)
         THEN ErrorResponse(502, <<"Unable", "to", "retrieve", "system", "information", ".",
                                   "Please", "try", "again", "later", ".">>)
         ELSE ErrorResponse(500, <<"A", "service", "error", "occurred">>)
    ELSE ErrorResponse(500, <<"An", "unexpected", "error", "occurred">>)

\* mutant of ReadBackError: the message speaks of a failed fetch
ReadBackErrorFetch(system_id) ==
    Exc("RuntimeError",
        <<"Failed", "to", "fetch", "system", ToString(system_id), "after", "inserting">>)

\* app.py:94
ReadBackError(system_id) ==
    Exc("RuntimeError",
        <<"Failed", "to", "retrieve", "system", ToString(system_id), "after", "inserting">>)

\* ---------------------------------------------------------------- the state
VARIABLES
    store,        \* the systems table: system_id -> row, or NoRow
    clock,        \* datetime.utcnow(), non-decreasing
    served,       \* requests received so far
    pc,           \* where each handler thread is
    args,         \* system_id_1, system_id_2: as extracted (app.py:125-131), then
                  \* as integers (app.py:141-142)
    which,        \* 1: resolving system_id_1 (app.py:160), 2: system_id_2 (:161)
    system_data,  \* get_or_fetch_system: result of the first db.get_system
    upstream,     \* outcome of the requests.get of the current resolution
    esi_data,     \* get_or_fetch_system: result of esi.get_system_info
    now,          \* `now` inside insert_system / update_system_timestamp
    system1,      \* calculate_distance_endpoint: first resolved record
    system2,      \* calculate_distance_endpoint: second resolved record
    exc,          \* exception in flight
    response,     \* the (body, status) the handler answered
    calls,        \* history: per resolution of the request, the calls it made
    resolved,     \* history: ids a resolution obtained through the Resolver
    late,         \* history: the current resolution began with its id in resolved
    failed,       \* history: the id of the get_or_fetch_system call that ended
                  \* last, when it ended on a failure of the Resolver; else 0
    call_in,      \* a function called on its own, as the unit tests do: its argument
    call_out      \* ... and what it returned

vars == <<store, clock, served, pc, args, which, system_data, upstream, esi_data,
          now, system1, system2, exc, response, calls, resolved, late, failed, call_in,
          call_out>>

\* no function is being called on its own
NoCall == [absent |-> TRUE]

direct == <<call_in, call_out>>

NoCalls == [get |-> 0, touch |-> 0, esi |-> 0, insert |-> 0]

\* mutant of system_id: the handler resolves system_id_2 before system_id_1
system_id_second_first(r) == args[r][3 - which[r]].v

\* app.py:160-161: the id the current get_or_fetch_system call was given
system_id(r) == args[r][which[r]].v

Called(r, op) == [calls EXCEPT ![r][which[r]][op] = @ + 1]

ServerInit ==
    /\ store = EmptyStore
    /\ clock = 0
    /\ served = 0
    /\ pc = [r \in Requests |-> "idle"]
    /\ args = [r \in Requests |-> <<JNull, JNull>>]
    /\ which = [r \in Requests |-> 1]
    /\ system_data = [r \in Requests |-> NoRow]
    /\ upstream = [r \in Requests |-> NoUpstream]
    /\ esi_data = [r \in Requests |-> NoData]
    /\ now = [r \in Requests |-> 0]
    /\ system1 = [r \in Requests |-> NoRow]
    /\ system2 = [r \in Requests |-> NoRow]
    /\ exc = [r \in Requests |-> NoExc]
    /\ response = [r \in Requests |-> NoResponse]
    /\ calls = [r \in Requests |-> <<NoCalls, NoCalls>>]
    /\ resolved = {}
    /\ late = [r \in Requests |-> FALSE]
    /\ failed = 0

Init == ServerInit /\ call_in = NoCall /\ call_out = NoCall

\* the wall clock advances
Tick ==
    /\ UNCHANGED direct
    /\ clock < MaxClock
    /\ clock' = clock + 1
    /\ UNCHANGED <<store, served, pc, args, which, system_data, upstream, esi_data,
                   now, system1, system2, exc, response, calls, resolved, late, failed>>

\* app.py:125-128: a POST with a JSON body; a key the body lacks reads as None
ReceivePost(r, inputs) ==
    /\ UNCHANGED direct
    /\ pc[r] = "idle"
    /\ served < MaxRequests
    /\ \E a \in inputs, b \in inputs : args' = [args EXCEPT ![r] = <<a, b>>]
    /\ served' = served + 1
    /\ pc' = [pc EXCEPT ![r] = "validate"]
    /\ UNCHANGED <<store, clock, which, system_data, upstream, esi_data, now,
                   system1, system2, exc, response, calls, resolved, late, failed>>

\* app.py:129-131: query parameters read with type=int
ReceiveGet(r, inputs) ==
    /\ UNCHANGED direct
    /\ pc[r] = "idle"
    /\ served < MaxRequests
    /\ \E a \in inputs, b \in inputs :
          args' = [args EXCEPT ![r] = <<ArgsGetInt(a), ArgsGetInt(b)>>]
    /\ served' = served + 1
    /\ pc' = [pc EXCEPT ![r] = "validate"]
    /\ UNCHANGED <<store, clock, which, system_data, upstream, esi_data, now,
                   system1, system2, exc, response, calls, resolved, late, failed>>

\* app.py:133-156: answer 400, or go on to resolve system_id_1
Validate(r) ==
    /\ UNCHANGED direct
    /\ pc[r] = "validate"
    /\ LET v == ValidateRequest(args[r][1], args[r][2])
       IN  /\ args' = [args EXCEPT ![r] = IF v.ok THEN <<JInt(v.ids[1]), JInt(v.ids[2])>> ELSE @]
           /\ response' = [response EXCEPT ![r] = v.response]
           /\ pc' = [pc EXCEPT ![r] = IF v.ok THEN "lookup" ELSE "done"]
    /\ UNCHANGED <<store, clock, served, which, system_data, upstream, esi_data, now,
                   system1, system2, exc, calls, resolved, late, failed>>

\* mutant of AfterLookup: the Resolver is asked whatever the lookup found
AfterLookupAlwaysFetch(row) == "fetch"

\* mutant of AfterLookup: a hit returns the row without a call of
\* update_system_timestamp of its own
AfterLookupSkipTouch(row) == IF row # NoRow THEN "touch_write" ELSE "fetch"

\* app.py:74: which branch get_or_fetch_system takes after the first lookup
AfterLookup(row) == IF row # NoRow THEN "touch_now" ELSE "fetch"

\* get_or_fetch_system returns `record` to calculate_distance_endpoint:
\* app.py:160 keeps it as system1 and goes on to system_id_2; app.py:161-180
\* keeps it as system2 and answers 200
Returns(r, record) ==
    IF which[r] = 1
    THEN /\ system1' = [system1 EXCEPT ![r] = record]
         /\ which' = [which EXCEPT ![r] = 2]
         /\ pc' = [pc EXCEPT ![r] = "lookup"]
         /\ UNCHANGED <<system2, response, exc>>
    ELSE /\ system2' = [system2 EXCEPT ![r] = record]
         /\ response' = [response EXCEPT ![r] = SuccessResponse(system1[r], record)]
         /\ pc' = [pc EXCEPT ![r] = "done"]
         /\ UNCHANGED <<system1, which, exc>>

\* mutant of Raises: get_or_fetch_system wraps what it catches in a RuntimeError
RaisesWrapped(r, e) ==
    /\ exc' = [exc EXCEPT ![r] = Exc("RuntimeError", <<"Failed", "to", "resolve", "system">>)]
    /\ response' = [response EXCEPT ![r] =
                       ErrorResponse(500, <<"A", "service", "error", "occurred">>)]
    /\ pc' = [pc EXCEPT ![r] = "done"]
    /\ UNCHANGED <<system1, system2, which>>

\* exception e leaves get_or_fetch_system (which catches nothing) and reaches
\* the except clauses of calculate_distance_endpoint, app.py:182-202
Raises(r, e) ==
    /\ exc' = [exc EXCEPT ![r] = e]
    /\ response' = [response EXCEPT ![r] = ExceptionResponse(e)]
    /\ pc' = [pc EXCEPT ![r] = "done"]
    /\ UNCHANGED <<system1, system2, which>>

\* app.py:72-74: system_data = db.get_system(system_id), in a fresh frame
Lookup(r) ==
    /\ UNCHANGED direct
    /\ pc[r] = "lookup"
    /\ system_data' = [system_data EXCEPT ![r] = get_system(store, system_id(r))]
    /\ upstream' = [upstream EXCEPT ![r] = NoUpstream]
    /\ esi_data' = [esi_data EXCEPT ![r] = NoData]
    /\ calls' = Called(r, "get")
    /\ late' = [late EXCEPT ![r] = system_id(r) \in resolved]
    /\ pc' = [pc EXCEPT ![r] = AfterLookup(get_system(store, system_id(r)))]
    /\ UNCHANGED <<store, clock, served, args, which, now, system1, system2, exc,
                   response, resolved, failed>>

\* sqlite3.connect or cursor.execute of db.get_system raises (database.py:55-63)
StorageError == Exc("OperationalError", <<"database", "is", "locked">>)

\* mutant of LookupFails: the storage error is swallowed and the lookup taken
\* for a miss
LookupFailsAsMiss(r) ==
    /\ UNCHANGED direct
    /\ pc[r] = "lookup"
    /\ system_data' = [system_data EXCEPT ![r] = NoRow]
    /\ upstream' = [upstream EXCEPT ![r] = NoUpstream]
    /\ esi_data' = [esi_data EXCEPT ![r] = NoData]
    /\ calls' = Called(r, "get")
    /\ late' = [late EXCEPT ![r] = system_id(r) \in resolved]
    /\ pc' = [pc EXCEPT ![r] = "fetch"]
    /\ UNCHANGED <<store, clock, served, args, which, now, system1, system2, exc,
                   response, resolved, failed>>

\* app.py:72 when db.get_system raises: nothing in get_or_fetch_system catches
\* it, the endpoint's except clauses answer
LookupFails(r) ==
    /\ UNCHANGED direct
    /\ pc[r] = "lookup"
    /\ system_data' = [system_data EXCEPT ![r] = NoRow]
    /\ upstream' = [upstream EXCEPT ![r] = NoUpstream]
    /\ esi_data' = [esi_data EXCEPT ![r] = NoData]
    /\ calls' = Called(r, "get")
    /\ late' = [late EXCEPT ![r] = system_id(r) \in resolved]
    /\ Raises(r, StorageError)
    /\ failed' = 0
    /\ UNCHANGED <<store, clock, served, args, now, resolved>>

\* mutant of TouchNow: the timestamp is the clock value the process started
\* with, not a fresh read
TouchNowProcessStart(r) ==
    /\ UNCHANGED direct
    /\ pc[r] = "touch_now"
    /\ now' = [now EXCEPT ![r] = 0]
    /\ calls' = Called(r, "touch")
    /\ pc' = [pc EXCEPT ![r] = "touch_write"]
    /\ UNCHANGED <<store, clock, served, args, which, system_data, upstream, esi_data,
                   system1, system2, exc, response, resolved, late, failed>>

\* app.py:76 into database.py:110: update_system_timestamp reads the clock
TouchNow(r) ==
    /\ UNCHANGED direct
    /\ pc[r] = "touch_now"
    /\ now' = [now EXCEPT ![r] = clock]
    /\ calls' = Called(r, "touch")
    /\ pc' = [pc EXCEPT ![r] = "touch_write"]
    /\ UNCHANGED <<store, clock, served, args, which, system_data, upstream, esi_data,
                   system1, system2, exc, response, resolved, late, failed>>

\* mutant of TouchWrite: the row is read again after the UPDATE and that
\* read is returned in place of system_data
TouchWriteReread(r) ==
    /\ UNCHANGED direct
    /\ pc[r] = "touch_write"
    /\ store' = update_system_timestamp(store, system_id(r), now[r])
    /\ now' = [now EXCEPT ![r] = 0]
    /\ Returns(r, get_system(store', system_id(r)))
    /\ failed' = 0
    /\ UNCHANGED <<clock, served, args, system_data, upstream, esi_data, calls, resolved,
                   late>>

\* mutant of TouchWrite: the record returned carries the timestamp the UPDATE
\* wrote
TouchWriteStamped(r) ==
    /\ UNCHANGED direct
    /\ pc[r] = "touch_write"
    /\ store' = update_system_timestamp(store, system_id(r), now[r])
    /\ now' = [now EXCEPT ![r] = 0]
    /\ Returns(r, [system_data[r] EXCEPT !.last_update = now[r]])
    /\ failed' = 0
    /\ UNCHANGED <<clock, served, args, system_data, upstream, esi_data, calls, resolved,
                   late>>

\* database.py:112-119 and app.py:77: the UPDATE commits, system_data is returned
TouchWrite(r) ==
    /\ UNCHANGED direct
    /\ pc[r] = "touch_write"
    /\ store' = update_system_timestamp(store, system_id(r), now[r])
    /\ now' = [now EXCEPT ![r] = 0]
    /\ Returns(r, system_data[r])
    /\ failed' = 0
    /\ UNCHANGED <<clock, served, args, system_data, upstream, esi_data, calls, resolved,
                   late>>

\* mutant of Fetch: a failed remote request is tried again, without limit
FetchRetryForever(r, outcomes) ==
    /\ UNCHANGED direct
    /\ pc[r] = "fetch"
    /\ \E up \in outcomes :
          LET res == get_system_info(system_id(r), up)
          IN  /\ upstream' = [upstream EXCEPT ![r] = up]
              /\ esi_data' = [esi_data EXCEPT ![r] = res.data]
              /\ IF res.ok
                 THEN pc' = [pc EXCEPT ![r] = "insert_now"]
                 ELSE pc' = pc
              /\ UNCHANGED <<exc, response, system1, system2, which>>
    /\ calls' = [calls EXCEPT ![r][which[r]].esi = 1]
    /\ UNCHANGED <<store, clock, served, args, system_data, now, resolved, late, failed>>

\* mutant of Fetch: a failed remote request is tried once more
FetchRetry(r, outcomes) ==
    /\ UNCHANGED direct
    /\ pc[r] = "fetch"
    /\ \E up \in outcomes :
          LET res == get_system_info(system_id(r), up)
          IN  /\ upstream' = [upstream EXCEPT ![r] = up]
              /\ esi_data' = [esi_data EXCEPT ![r] = res.data]
              /\ IF res.ok
                 THEN /\ pc' = [pc EXCEPT ![r] = "insert_now"]
                      /\ UNCHANGED <<exc, response, system1, system2, which>>
                 ELSE IF calls[r][which[r]].esi = 0
                 THEN UNCHANGED <<pc, exc, response, system1, system2, which>>
                 ELSE Raises(r, res.exc)
    /\ calls' = Called(r, "esi")
    /\ failed' = IF pc'[r] = "done" THEN system_id(r) ELSE failed
    /\ UNCHANGED <<store, clock, served, args, system_data, now, resolved, late>>

\* mutant of Fetch: when the Resolver fails for system_id_2 the handler undoes
\* the insert its resolution of system_id_1 made
FetchRollback(r, outcomes) ==
    /\ UNCHANGED direct
    /\ pc[r] = "fetch"
    /\ \E up \in outcomes :
          LET res == get_system_info(system_id(r), up)
          IN  /\ upstream' = [upstream EXCEPT ![r] = up]
              /\ esi_data' = [esi_data EXCEPT ![r] = res.data]
              /\ IF res.ok
                 THEN /\ pc' = [pc EXCEPT ![r] = "insert_now"]
                      /\ UNCHANGED <<exc, response, system1, system2, which, store>>
                 ELSE /\ Raises(r, res.exc)
                      /\ store' = IF which[r] = 2 /\ calls[r][1].insert = 1
                                  THEN [store EXCEPT ![args[r][1].v] = NoRow]
                                  ELSE store
    /\ calls' = Called(r, "esi")
    /\ failed' = IF pc'[r] = "done" THEN system_id(r) ELSE failed
    /\ UNCHANGED <<clock, served, args, system_data, now, resolved, late>>

\* mutant of Fetch: negative caching, the id whose resolution has just failed
\* is answered as not found without a remote request
FetchNegativeCache(r, outcomes) ==
    /\ UNCHANGED direct
    /\ pc[r] = "fetch"
    /\ IF failed = system_id(r)
       THEN /\ Raises(r, NotFoundError(system_id(r)))
            /\ UNCHANGED <<upstream, esi_data, calls>>
       ELSE /\ \E up \in outcomes :
                  LET res == get_system_info(system_id(r), up)
                  IN  /\ upstream' = [upstream EXCEPT ![r] = up]
                      /\ esi_data' = [esi_data EXCEPT ![r] = res.data]
                      /\ IF res.ok
                         THEN /\ pc' = [pc EXCEPT ![r] = "insert_now"]
                              /\ UNCHANGED <<exc, response, system1, system2, which>>
                         ELSE Raises(r, res.exc)
            /\ calls' = Called(r, "esi")
    /\ failed' = IF pc'[r] = "done" THEN system_id(r) ELSE failed
    /\ UNCHANGED <<store, clock, served, args, system_data, now, resolved, late>>

\* app.py:80: esi_data = esi.get_system_info(system_id), one requests.get
Fetch(r, outcomes) ==
    /\ UNCHANGED direct
    /\ pc[r] = "fetch"
    /\ \E up \in outcomes :
          LET res == get_system_info(system_id(r), up)
          IN  /\ upstream' = [upstream EXCEPT ![r] = up]
              /\ esi_data' = [esi_data EXCEPT ![r] = res.data]
              /\ IF res.ok
                 THEN /\ pc' = [pc EXCEPT ![r] = "insert_now"]
                      /\ UNCHANGED <<exc, response, system1, system2, which>>
                 ELSE Raises(r, res.exc)
    /\ calls' = Called(r, "esi")
    /\ failed' = IF pc'[r] = "done" THEN system_id(r) ELSE failed
    /\ UNCHANGED <<store, clock, served, args, system_data, now, resolved, late>>

\* app.py:83 into database.py:91: insert_system reads the clock
InsertNow(r) ==
    /\ UNCHANGED direct
    /\ pc[r] = "insert_now"
    /\ now' = [now EXCEPT ![r] = clock]
    /\ calls' = Called(r, "insert")
    /\ pc' = [pc EXCEPT ![r] = "insert_write"]
    /\ UNCHANGED <<store, clock, served, args, which, system_data, upstream, esi_data,
                   system1, system2, exc, response, resolved, late, failed>>

\* database.py:93-99: the INSERT commits or raises IntegrityError; the row is
\* keyed by esi_data["system_id"] (app.py:84)
InsertWrite(r) ==
    /\ UNCHANGED direct
    /\ pc[r] = "insert_write"
    /\ LET d == esi_data[r]
           res == insert_system(store, d.system_id, d.name, d.x, d.y, d.z, now[r])
       IN  /\ store' = res.store
           /\ IF res.ok
              THEN /\ pc' = [pc EXCEPT ![r] = "relookup"]
                   /\ UNCHANGED <<exc, response, system1, system2, which>>
              ELSE Raises(r, res.exc)
    /\ now' = [now EXCEPT ![r] = 0]
    /\ failed' = IF pc'[r] = "done" THEN 0 ELSE failed
    /\ UNCHANGED <<clock, served, args, system_data, upstream, esi_data, calls, resolved,
                   late>>

\* app.py:92-95: db_record = db.get_system(system_id); None raises RuntimeError
ReLookup(r) ==
    /\ UNCHANGED direct
    /\ pc[r] = "relookup"
    /\ calls' = Called(r, "get")
    /\ LET db_record == get_system(store, system_id(r))
       IN  IF db_record = NoRow
           THEN /\ Raises(r, ReadBackError(system_id(r)))
                /\ UNCHANGED resolved
           ELSE /\ Returns(r, db_record)
                /\ resolved' = resolved \cup {system_id(r)}
    /\ failed' = 0
    /\ UNCHANGED <<store, clock, served, args, system_data, upstream, esi_data, now, late>>

\* the response is sent; the thread is free for the next request
Finish(r) ==
    /\ UNCHANGED direct
    /\ pc[r] = "done"
    /\ pc' = [pc EXCEPT ![r] = "idle"]
    /\ args' = [args EXCEPT ![r] = <<JNull, JNull>>]
    /\ which' = [which EXCEPT ![r] = 1]
    /\ system_data' = [system_data EXCEPT ![r] = NoRow]
    /\ upstream' = [upstream EXCEPT ![r] = NoUpstream]
    /\ esi_data' = [esi_data EXCEPT ![r] = NoData]
    /\ system1' = [system1 EXCEPT ![r] = NoRow]
    /\ system2' = [system2 EXCEPT ![r] = NoRow]
    /\ exc' = [exc EXCEPT ![r] = NoExc]
    /\ response' = [response EXCEPT ![r] = NoResponse]
    /\ calls' = [calls EXCEPT ![r] = <<NoCalls, NoCalls>>]
    /\ late' = [late EXCEPT ![r] = FALSE]
    /\ UNCHANGED <<store, clock, served, now, resolved, failed>>

\* one step of handler thread r, its request parameters drawn from `json` or
\* `query` and the upstream outcomes from `outcomes`
Step(r, json, query, outcomes) ==
    \/ ReceivePost(r, json)
    \/ ReceiveGet(r, query)
    \/ Validate(r)
    \/ Lookup(r)
    \/ TouchNow(r)
    \/ TouchWrite(r)
    \/ Fetch(r, outcomes)
    \/ InsertNow(r)
    \/ InsertWrite(r)
    \/ ReLookup(r)
    \/ Finish(r)

\* Spec: the handler threads run concurrently, interleaved at every Store
\* operation and clock read; valid requests, and an upstream that answers
\* with 404 or with the payload of either valid id
ValidJson == {JInt(MIN_SYSTEM_ID), JInt(MAX_SYSTEM_ID)}

ValidQuery == {JStr(<<"3", "0", "0", "0", "0", "0", "0", "0">>)}

ConcurrentOutcomes ==
    {up \in UpstreamOutcomes :
        \/ up.kind = "response" /\ up.status = 404
        \/ /\ up.kind = "response" /\ up.status = 200 /\ up.body \in FullBodies
           /\ up.body.system_id <= MAX_SYSTEM_ID}

Next == Tick \/ \E r \in Requests : Step(r, ValidJson, ValidQuery, ConcurrentOutcomes)

Spec == Init /\ [][Next]_vars

\* SeqSpec: one request at a time, with every request value and every
\* upstream outcome
SeqNext == Tick \/ Step("t1", JsonInputs, QueryInputs, UpstreamOutcomes)

SeqSpec == Init /\ [][SeqNext]_vars

\* FaultSpec: SeqSpec with a Store whose lookup may raise a storage error
FaultNext == SeqNext \/ LookupFails("t1")

FaultSpec == Init /\ [][FaultNext]_vars

\* ValidateSpec: validate_system_id called on its own, as by
\* tests/test_error_handling.py:29-61, on integers around both ends of the
\* range, on floats, booleans, a string and None
NearBounds ==
    ((MIN_SYSTEM_ID - MaxOffset)..(MIN_SYSTEM_ID + MaxOffset))
        \cup ((MAX_SYSTEM_ID - MaxOffset)..(MAX_SYSTEM_ID + MaxOffset))

ValidateInputs ==
    {JInt(n) : n \in NearBounds \cup {-1, 0}}
        \cup {JFloat(n) : n \in NearBounds}
        \cup {JBool(TRUE), JBool(FALSE), JNull,
              JStr(<<"3", "0", "0", "0", "0", "0", "0", "0">>)}

ValidateInit == ServerInit /\ call_in \in ValidateInputs /\ call_out = NoCall

CallValidate ==
    /\ call_in # NoCall
    /\ call_out = NoCall
    /\ call_out' = validate_system_id(call_in)
    /\ UNCHANGED <<store, clock, served, pc, args, which, system_data, upstream, esi_data,
                   now, system1, system2, exc, response, calls, resolved, late, call_in,
                   failed>>

ValidateSpec == ValidateInit /\ [][CallValidate]_vars

\* calculate_distance called on its own (calculator.py:8-45)
Point(x, y, z) == [x |-> x, y |-> y, z |-> z]

\* points with whole coordinates, as <<x, y, z>>
WholeCoordinates ==
    {<<3, 4, 12>>, <<3, 4, 0>>, <<-3, -4, -12>>, <<1, 2, 3>>,
     <<-1000, -2000, -3000>>, <<1000, 2000, 3000>>}

WholePoint(c) == Point(Float(c[1]), Float(c[2]), Float(c[3]))

\* the point k light years from the origin on the x axis
LightyearPoint(k) == Point(FMul(Float(k), LIGHTYEAR_IN_METERS), Float(0), Float(0))

\* i / 10 as a float
Tenth(i) == FDiv(Float(i), Float(10))

\* points whose coordinates are no whole numbers
FractionPoints ==
    {Point(Tenth(1), Tenth(2), Tenth(3)), Point(Tenth(7), Tenth(-15), Tenth(22))}

DistancePoints ==
    {WholePoint(c) : c \in WholeCoordinates}
        \cup {LightyearPoint(k) : k \in 0..MaxScale}
        \cup FractionPoints

DistanceInputs == [system1 : DistancePoints, system2 : DistancePoints]

DistanceInit == ServerInit /\ call_in \in DistanceInputs /\ call_out = NoCall

CallDistance ==
    /\ call_in # NoCall
    /\ call_out = NoCall
    /\ call_out' = calculate_distance(call_in.system1, call_in.system2)
    /\ UNCHANGED <<store, clock, served, pc, args, which, system_data, upstream, esi_data,
                   now, system1, system2, exc, response, calls, resolved, late, call_in,
                   failed>>

DistanceSpec == DistanceInit /\ [][CallDistance]_vars

\* the steps of r between the receipt of a request and its response: each is a
\* Store operation, a clock read, or the one requests.get with timeout=10
\* (esi_client.py:35), all of which return
Progress(r) ==
    \/ Validate(r)
    \/ Lookup(r)
    \/ LookupFails(r)
    \/ TouchNow(r)
    \/ TouchWrite(r)
    \/ Fetch(r, UpstreamOutcomes)
    \/ InsertNow(r)
    \/ InsertWrite(r)
    \/ ReLookup(r)

\* LiveSpec: one request at a time, a missing or a valid id in each parameter,
\* every upstream outcome, a lookup that may raise, and a handler that is not
\* stopped between its steps
LiveJson == {JNull, JInt(MIN_SYSTEM_ID), JInt(MAX_SYSTEM_ID)}

LiveNext == Tick \/ Step("t1", LiveJson, ValidQuery, UpstreamOutcomes) \/ LookupFails("t1")

LiveSpec == Init /\ [][LiveNext]_vars /\ WF_vars(Progress("t1"))

\* ------------------------------------------------------- reading the state
\* the five fields the Resolver supplies, and the fields touch leaves alone
Fields(row) ==
    [system_id |-> row.system_id, name |-> row.name, x |-> row.x, y |-> row.y, z |-> row.z]

Immutable(row) ==
    [system_id |-> row.system_id, name |-> row.name, x |-> row.x, y |-> row.y, z |-> row.z,
     added |-> row.added]

\* a get_or_fetch_system call of r has just returned: the one for system_id_1
\* (the handler is about to resolve system_id_2) or the one for system_id_2
\* (the handler answered 200)
Returned1(r) == pc[r] = "lookup" /\ which[r] = 2

Returned2(r) == pc[r] = "done" /\ response[r].status = 200

Returned(r) == Returned1(r) \/ Returned2(r)

\* the resolution whose frame (system_data, upstream, esi_data) r holds
Frame(r) == IF Returned1(r) THEN 1 ELSE which[r]

FrameId(r) == args[r][Frame(r)].v

FrameCalls(r) == calls[r][Frame(r)]

ReturnValue(r) == IF Returned1(r) THEN system1[r] ELSE system2[r]

\* the call of the current frame was answered by the Resolver with a failure
ResolverFailed(r) ==
    upstream[r] # NoUpstream /\ ~get_system_info(FrameId(r), upstream[r]).ok

\* -------------------------------------------------------------------- claims
\* C1: cache-hit path.  Whenever the first db.get_system of a resolution finds
\* a row, the resolution calls update_system_timestamp once, calls neither
\* ESIClient.get_system_info nor insert_system, raises nothing, and returns
\* the record that lookup read.
C1_CacheHitPath ==
    \A r \in Requests :
        system_data[r] # NoRow =>
            /\ FrameCalls(r).get = 1
            /\ FrameCalls(r).esi = 0
            /\ FrameCalls(r).insert = 0
            /\ FrameCalls(r).touch = (IF pc[r] = "touch_now" THEN 0 ELSE 1)
            /\ exc[r] = NoExc
            /\ pc[r] \in {"touch_now", "touch_write"} \/ Returned(r)
            /\ Returned(r) => ReturnValue(r) = system_data[r]

\* a resolution that hit the cache has returned, after its touch changed the row
C1_Witness ==
    \E r \in Requests :
        /\ Returned(r)
        /\ system_data[r] # NoRow
        /\ store[FrameId(r)].last_update # system_data[r].last_update

\* C2: cache-then-hit.  A resolution of an id that begins after some
\* resolution of that id succeeded through the Resolver never invokes the
\* Resolver and never fails, whatever other resolutions ran in between.
C2_CacheThenHit ==
    \A r \in Requests :
        late[r] => FrameCalls(r).esi = 0 /\ exc[r] = NoExc

\* such a later resolution has returned
C2_Witness ==
    \E r \in Requests : late[r] /\ Returned(r) /\ FrameId(r) \in resolved

\* the resolution whose frame r holds missed the cache and was answered by
\* the Resolver with a record for the id it asked for
MissedAndResolved(r) ==
    /\ system_data[r] = NoRow
    /\ esi_data[r] # NoData
    /\ esi_data[r].system_id = FrameId(r)

C4_FailureLeavesStoreUntouched ==
    /\ [](\A r \in Requests :
            ResolverFailed(r) =>
                /\ pc[r] = "done"
                /\ exc[r] = get_system_info(FrameId(r), upstream[r]).exc
                /\ FrameCalls(r) = [get |-> 1, touch |-> 0, esi |-> 1, insert |-> 0])
    /\ [][\A r \in Requests :
            (pc[r] \in {"lookup", "fetch"} /\ pc'[r] # pc[r]) =>
                store' = store]_vars

\* a resolution failed in the Resolver while the Store held a row
C4_Witness ==
    \E r \in Requests :
        /\ ResolverFailed(r)
        /\ upstream[r].kind = "timeout"
        /\ \E k \in UpstreamIds : store[k] # NoRow

\* C5: row persistence.  A row, once in the Store, is in the Store after every
\* step, with system_id, name, x, y, z and added unchanged.
C5_RowPersistence ==
    [][\A k \in UpstreamIds :
          store[k] # NoRow =>
              /\ store'[k] # NoRow
              /\ Immutable(store'[k]) = Immutable(store[k])]_vars

\* a row was touched after it was inserted
C5_Witness ==
    \E k \in UpstreamIds : store[k] # NoRow /\ store[k].last_update # store[k].added

\* C6: idempotence.  The two resolutions of a request whose ids are equal
\* return the same system_id, name, x, y, z, and the last_update of the second
\* record is not smaller than that of the first.
C6_Idempotence ==
    \A r \in Requests :
        (Returned2(r) /\ args[r][1] = args[r][2]) =>
            /\ Fields(system1[r]) = Fields(system2[r])
            /\ system2[r].last_update >= system1[r].last_update

\* two such resolutions returned, the second with a later last_update
C6_Witness ==
    \E r \in Requests :
        /\ Returned2(r)
        /\ args[r][1] = args[r][2]
        /\ system2[r].last_update > system1[r].last_update

\* C7: duplicate-insert race.  Of two concurrent resolutions that both miss
\* the cache and both resolve the id, the one whose insert loses to the
\* primary key re-looks the id up and returns the stored record: no resolution
\* that missed and resolved its id ends with an exception.
C7_RaceLoserSucceeds ==
    \A r \in Requests : MissedAndResolved(r) => exc[r] = NoExc

\* C8: the Resolution Service never calls insert_system with an id that has a
\* row in the Store at the moment of the insert.
C8_NeverInsertsExisting ==
    [][\A r \in Requests :
          (pc[r] = "insert_write" /\ pc'[r] # "insert_write") =>
              store[esi_data[r].system_id] = NoRow]_vars

\* app.py:133-156: the parameter is missing, not convertible to an integer, or
\* outside [MIN_SYSTEM_ID, MAX_SYSTEM_ID]
Invalid(x) ==
    \/ x.t = "null"
    \/ ~PyInt(x).ok
    \/ PyInt(x).v < MIN_SYSTEM_ID
    \/ PyInt(x).v > MAX_SYSTEM_ID

\* C9: validation precedes all effects.  A request one of whose ids is
\* missing, not convertible to an integer or out of range is answered 400, and
\* no Store operation and no Resolver call is made for either id.
C9_ValidationPrecedesEffects ==
    \A r \in Requests :
        (pc[r] # "idle" /\ (Invalid(args[r][1]) \/ Invalid(args[r][2]))) =>
            /\ pc[r] \in {"validate", "done"}
            /\ calls[r] = <<NoCalls, NoCalls>>
            /\ exc[r] = NoExc
            /\ pc[r] = "done" => response[r].status = 400

\* a request with a valid system_id_1 and an out-of-range system_id_2 was
\* answered
C9_Witness ==
    \E r \in Requests :
        /\ pc[r] = "done"
        /\ response[r].status = 400
        /\ ~Invalid(args[r][1])
        /\ args[r][2].t = "int"
        /\ args[r][2].v > MAX_SYSTEM_ID

\* C10: NotFound mapping.  When the upstream service answers 404 for an id
\* that missed the cache, the Resolver raises the not-found ValueError and the
\* endpoint answers 404.
C10_NotFoundMapping ==
    \A r \in Requests :
        (upstream[r].kind = "response" /\ upstream[r].status = 404) =>
            /\ system_data[r] = NoRow
            /\ pc[r] = "done"
            /\ exc[r] = NotFoundError(FrameId(r))
            /\ exc[r].type = "ValueError"
            /\ response[r].status = 404

\* the second resolution of a request was answered 404 by the upstream service
C10_Witness ==
    \E r \in Requests :
        /\ upstream[r].kind = "response"
        /\ upstream[r].status = 404
        /\ which[r] = 2
        /\ pc[r] = "done"

C12_ErrorStatusMapping ==
    \A r \in Requests :
        (upstream[r].kind = "response" /\ upstream[r].status >= 400
            /\ upstream[r].status # 404) =>
            /\ pc[r] = "done"
            /\ exc[r].type = "RuntimeError"
            /\ response[r].status = 502

\* the upstream response is 2xx but does not parse or lacks a required field
Malformed(up) ==
    /\ up.kind = "response"
    /\ up.status = 200
    /\ up.json # "ok" \/ MissingKey(up.body) # ""

\* C13: malformed-payload mapping.  When the upstream response is 2xx but is
\* not parseable or lacks a required field, the endpoint answers 500, not 502.
C13_MalformedMapping ==
    \A r \in Requests :
        Malformed(upstream[r]) => pc[r] = "done" /\ response[r].status = 500

\* C14: fatal internal-consistency error.  A resolution that ends after its
\* second lookup without returning a record ends with the 'after inserting'
\* RuntimeError, which the endpoint answers 500 with the generic service
\* message, never 404 or 502.
C14_ReadBackFatal ==
    \A r \in Requests :
        (pc[r] = "done" /\ FrameCalls(r).get = 2 /\ response[r].status # 200) =>
            /\ FrameCalls(r).insert = 1
            /\ exc[r] = ReadBackError(FrameId(r))
            /\ response[r] = ErrorResponse(500, <<"A", "service", "error", "occurred">>)

\* a re-lookup after a successful insert found no row
C14_Witness ==
    \E r \in Requests :
        /\ pc[r] = "done"
        /\ exc[r] = ReadBackError(FrameId(r))
        /\ store[FrameId(r)] = NoRow
        /\ store[esi_data[r].system_id] # NoRow

\* C15: storage malfunction is not NotFound.  When the lookup raises a storage
\* error the resolution ends with that error, having called neither the
\* Resolver nor insert_system nor update_system_timestamp and with the Store
\* as it was, and the endpoint answers 500; the Resolver is called only after
\* a lookup that returned no row.
C15_StorageErrorNotNotFound ==
    /\ [](\A r \in Requests :
            /\ exc[r] = StorageError =>
                  /\ pc[r] = "done"
                  /\ FrameCalls(r) = [get |-> 1, touch |-> 0, esi |-> 0, insert |-> 0]
                  /\ upstream[r] = NoUpstream
                  /\ response[r].status = 500
            /\ pc[r] = "fetch" => get_system(store, FrameId(r)) = NoRow)
    /\ [][\A r \in Requests : exc'[r] = StorageError => store' = store]_vars

\* the lookup of a cached id raised a storage error
C15_Witness ==
    \E r \in Requests :
        /\ pc[r] = "done"
        /\ exc[r] = StorageError
        /\ store[FrameId(r)] # NoRow

\* the constant 'error' strings of calculate_distance_endpoint: app.py:135,
\* 144, 151, 156, 187, 189, 195, 197, 202
ErrorMessages ==
    {<<"Both", "system_id_1", "and", "system_id_2", "are", "required">>,
     <<"System", "IDs", "must", "be", "valid", "integers">>,
     <<"system_id_1", ":">> \o validate_system_id(JInt(MIN_SYSTEM_ID - 1)).msg,
     <<"system_id_2", ":">> \o validate_system_id(JInt(MIN_SYSTEM_ID - 1)).msg,
     <<"One", "or", "more", "system", "IDs", "not", "found", "in", "EVE", "Online",
       "universe">>,
     <<"Invalid", "system", "data">>,
     <<"Unable", "to", "retrieve", "system", "information", ".", "Please", "try", "again",
       "later", ".">>,
     <<"A", "service", "error", "occurred">>,
     <<"An", "unexpected", "error", "occurred">>}

\* every exception a resolution can end with, for every id and upstream outcome
Exceptions ==
    {get_system_info(id, up).exc : id \in UpstreamIds, up \in UpstreamOutcomes}
        \cup {ReadBackError(id) : id \in UpstreamIds}
        \cup {IntegrityError, StorageError}

Words(msg) == {msg[i] : i \in 1..Len(msg)}

\* C16: sanitized errors.  The 'error' string of every failing response is one
\* of the constant messages; when an exception was raised the string holds
\* neither the exception's message nor a word of the upstream error text, and
\* every exception of the same type that is answered with the same status is
\* answered with the identical response.
C16_SanitizedErrors ==
    \A r \in Requests :
        (pc[r] = "done" /\ response[r].status # 200) =>
            /\ response[r].error \in ErrorMessages
            /\ response[r].body = NoResponse.body
            /\ exc[r] # NoExc =>
                  /\ ~ContainsSeq(response[r].error, exc[r].msg)
                  /\ Words(response[r].error) \cap Words(upstream[r].detail) = {}
                  /\ ToString(FrameId(r)) \notin Words(response[r].error)
                  /\ \A e \in Exceptions \ {NoExc} :
                        (e.type = exc[r].type
                            /\ ExceptionResponse(e).status = response[r].status) =>
                            ExceptionResponse(e) = response[r]

\* a request was answered 502 for an exception that shares its type and status
\* with an exception of another text
C16_Witness ==
    \E r \in Requests :
        /\ pc[r] = "done"
        /\ response[r].status = 502
        /\ upstream[r].detail # <<>>
        /\ \E e \in Exceptions :
              e # exc[r] /\ e.type = exc[r].type /\ ExceptionResponse(e).status = 502

\* C17: single attempt.  A resolution never issues more than one remote
\* request: none on a cache hit, exactly one by the time it ends after a miss,
\* and a failed request ends the resolution at once.
C17_SingleAttempt ==
    \A r \in Requests :
        /\ FrameCalls(r).esi <= 1
        /\ system_data[r] # NoRow => FrameCalls(r).esi = 0
        /\ (Returned(r) /\ system_data[r] = NoRow) => FrameCalls(r).esi = 1
        /\ (pc[r] = "done" /\ exc[r] # NoExc) => FrameCalls(r).esi = 1
        /\ ResolverFailed(r) => pc[r] = "done" /\ exc[r] # NoExc

\* a resolution ended on a failed remote request, the one it made
C17_Witness ==
    \E r \in Requests :
        /\ pc[r] = "done"
        /\ ResolverFailed(r)
        /\ upstream[r].status = 500
        /\ FrameCalls(r).esi = 1

\* a call of get_or_fetch_system by r is in progress
Resolving(r) == pc[r] \in {"lookup", "touch_now", "touch_write", "fetch", "insert_now",
                           "insert_write", "relookup"}

\* C18: every resolution terminates with a classified outcome.  Every
\* get_or_fetch_system call eventually ends, with a record or with one
\* exception, and every request eventually has one response, whose status is
\* one of 200, 400, 404, 500, 502.
C18_Terminates ==
    LET r == "t1"
    IN  /\ (Resolving(r) /\ which[r] = 1) ~>
              (Returned1(r) \/ (pc[r] = "done" /\ exc[r] # NoExc))
        /\ (Resolving(r) /\ which[r] = 2) ~>
              (Returned2(r) \/ (pc[r] = "done" /\ exc[r] # NoExc))
        /\ (pc[r] = "validate") ~> (pc[r] = "done")
        /\ [](pc[r] = "done" =>
                /\ response[r].status \in {200, 400, 404, 500, 502}
                /\ response[r].status = 200 <=> (exc[r] = NoExc /\ system2[r] # NoRow)
                /\ response[r].status \in {404, 500, 502} <=> exc[r] # NoExc)

\* the second resolution of a request ended on an exception
C18_Witness ==
    \E r \in Requests :
        /\ pc[r] = "done"
        /\ which[r] = 2
        /\ exc[r] # NoExc
        /\ response[r].status = 500

\* C19: validate_system_id(n) returns (True, "") exactly when n is an integer
\* with MIN_SYSTEM_ID <= n <= MAX_SYSTEM_ID, both ends included, and otherwise
\* False with a non-empty message.
C19_ValidateSystemId ==
    call_out # NoCall =>
        LET n == call_in
            ok == /\ n.t \in {"int", "bool"}
                  /\ MIN_SYSTEM_ID <= n.v
                  /\ n.v <= MAX_SYSTEM_ID
        IN  /\ call_out.valid <=> ok
            /\ call_out.valid => call_out.msg = <<>>
            /\ ~call_out.valid => call_out.msg # <<>>
            /\ n = JInt(30000000) => call_out.valid
            /\ n = JInt(31000000) => call_out.valid
            /\ n = JInt(29999999) => ~call_out.valid
            /\ n = JInt(31000001) => ~call_out.valid

\* validate_system_id returned for the upper end of the range
C19_Witness ==
    /\ call_in = JInt(MAX_SYSTEM_ID)
    /\ call_out # NoCall
    /\ call_out.valid

\* C20: insert_system creates the row with added equal to last_update, both
\* the one `now` the inserting call read.
C20_InsertTimestamps ==
    [][\A k \in UpstreamIds :
          (store[k] = NoRow /\ store'[k] # NoRow) =>
              /\ store'[k].added = store'[k].last_update
              /\ \E r \in Requests :
                    /\ pc[r] = "insert_write"
                    /\ pc'[r] # "insert_write"
                    /\ esi_data[r].system_id = k
                    /\ store'[k].added = now[r]]_vars

\* a row was inserted after the clock had advanced
C20_Witness ==
    \E k \in UpstreamIds :
        /\ store[k] # NoRow
        /\ store[k].added = 1
        /\ store[k].last_update = 1

\* C21: on success the Resolver returns exactly the five fields system_id,
\* name, x, y, z, taken from the payload's system_id, name and position.x/y/z,
\* and no other field of the payload.
C21_FiveFields ==
    \A r \in Requests :
        esi_data[r] # NoData =>
            /\ upstream[r].kind = "response"
            /\ upstream[r].status = 200
            /\ DOMAIN esi_data[r] = {"system_id", "name", "x", "y", "z"}
            /\ esi_data[r].system_id = upstream[r].body.system_id
            /\ esi_data[r].name = upstream[r].body.name
            /\ esi_data[r].x = upstream[r].body.position.x
            /\ esi_data[r].y = upstream[r].body.position.y
            /\ esi_data[r].z = upstream[r].body.position.z

\* the Resolver returned a record for a payload that has a further field
C21_Witness ==
    \E r \in Requests :
        /\ esi_data[r] # NoData
        /\ "constellation_id" \in DOMAIN upstream[r].body
        /\ esi_data[r].x # esi_data[r].y

\* C22: for every coordinate record a, calculate_distance(a, a) returns
\* distance_meters = 0.0 and distance_lightyears = 0.0.
C22_DistanceToSelf ==
    (call_out # NoCall /\ call_in.system1 = call_in.system2) =>
        /\ call_out.distance_meters = FZero
        /\ call_out.distance_lightyears = FZero

\* calculate_distance has returned for a point away from the origin on every
\* axis, taken twice
C22_Witness ==
    /\ call_out # NoCall
    /\ call_in.system1 = call_in.system2
    /\ call_in.system1.x.s # 0 /\ call_in.system1.y.s # 0 /\ call_in.system1.z.s # 0
    /\ call_in.system1.x.e < 0

\* C23: calculate_distance is symmetric: for all records a and b,
\* calculate_distance(a, b) equals calculate_distance(b, a) in both
\* distance_meters and distance_lightyears.
C23_Symmetric ==
    call_out # NoCall =>
        LET back == calculate_distance(call_in.system2, call_in.system1)
        IN  /\ call_out.distance_meters = back.distance_meters
            /\ call_out.distance_lightyears = back.distance_lightyears

\* calculate_distance has returned a distance that is no whole number for two
\* points that differ on every axis
C23_Witness ==
    /\ call_out # NoCall
    /\ call_in.system1.x # call_in.system2.x
    /\ call_in.system1.y # call_in.system2.y
    /\ call_in.system1.z # call_in.system2.z
    /\ call_out.distance_meters.e < 0

\* C24: conversion law: for every pair of records distance_lightyears equals
\* distance_meters / 9460000000000000.0 exactly; two points k light years
\* apart on one axis give distance_meters = k * 9460000000000000.0 and
\* distance_lightyears = k exactly, for k = 1, 5 and every k up to MaxScale.
C24_ConversionLaw ==
    call_out # NoCall =>
        /\ call_out.distance_lightyears
                = FDiv(call_out.distance_meters, LIGHTYEAR_IN_METERS)
        /\ \A i, j \in 0..MaxScale :
                (call_in.system1 = LightyearPoint(i) /\ call_in.system2 = LightyearPoint(j)) =>
                    LET k == IF i < j THEN j - i ELSE i - j
                    IN  /\ call_out.distance_meters = FMul(Float(k), LIGHTYEAR_IN_METERS)
                        /\ call_out.distance_lightyears = Float(k)

\* calculate_distance has returned 5.0 light years for the origin and the
\* point five light years along the x axis
C24_Witness ==
    /\ call_out # NoCall
    /\ call_in.system1 = LightyearPoint(0)
    /\ call_in.system2 = LightyearPoint(5)
    /\ call_out.distance_lightyears = Float(5)

\* C25: calculate_distance returns the Euclidean norm of the coordinate
\* difference: whenever (x2-x1)^2 + (y2-y1)^2 + (z2-z1)^2 is a perfect square
\* n^2 of whole numbers, n up to MaxRoot, distance_meters equals n, also with
\* negative coordinates.
C25_EuclideanNorm ==
    \A a, b \in WholeCoordinates \cup {<<0, 0, 0>>} :
        (/\ call_out # NoCall
         /\ call_in.system1 = WholePoint(a)
         /\ call_in.system2 = WholePoint(b)) =>
            LET sum == (b[1] - a[1]) * (b[1] - a[1]) + (b[2] - a[2]) * (b[2] - a[2])
                        + (b[3] - a[3]) * (b[3] - a[3])
            IN  \A n \in 0..MaxRoot : n * n = sum => call_out.distance_meters = Float(n)

\* calculate_distance has returned 13.0 for two points with negative
\* coordinates whose difference is (3, 4, 12)
C25_Witness ==
    /\ call_out # NoCall
    /\ call_in.system1 = WholePoint(<<-3, -4, -12>>)
    /\ call_in.system2 = WholePoint(<<0, 0, 0>>)
    /\ call_out.distance_meters = Float(13)

\* C26: for an upstream HTTP error status other than 404 (e.g. 500),
\* ESIClient.get_system_info re-raises the HTTP error itself; it raises
\* neither the not-found ValueError nor a RuntimeError.
C26_HttpErrorReraised ==
    \A r \in Requests :
        (upstream[r].kind = "response" /\ upstream[r].status >= 400
            /\ upstream[r].status # 404) =>
            /\ esi_data[r] = NoData
            /\ exc[r] = Exc("HTTPError", upstream[r].detail)
            /\ exc[r].type \notin {"ValueError", "RuntimeError"}

\* the upstream service answered 500 and the resolution ended on the HTTPError
C26_Witness ==
    \E r \in Requests :
        /\ upstream[r].kind = "response"
        /\ upstream[r].status = 500
        /\ exc[r].type = "HTTPError"

\* C27: the stored last_update of a row never decreases: under any
\* interleaving of concurrent get_or_fetch_system calls for the same id, each
\* touch reading the clock and then writing, no step lowers the last_update
\* of a row.
C27_LastUpdateNeverDecreases ==
    [][\A k \in DOMAIN store :
            (store[k] # NoRow /\ store'[k] # NoRow) =>
                store'[k].last_update >= store[k].last_update]_vars

\* C28: same id twice in one request.  For a /calculate-distance request with
\* system_id_1 = system_id_2 = id and no row for id in the Store, served on
\* its own, once the Resolver has supplied the record: the Resolver is called
\* exactly once and the row inserted exactly once, both by the first
\* resolution; the second resolution is a cache hit that only touches the
\* row, and the response is 200 with both distances 0.0.
C28_SameIdTwice ==
    \A r \in Requests :
        (/\ args[r][1].v = args[r][2].v
         /\ which[r] = 2
         /\ calls[r][1].esi > 0) =>
            /\ calls[r][1] = [get |-> 2, touch |-> 0, esi |-> 1, insert |-> 1]
            /\ calls[r][2].esi = 0
            /\ calls[r][2].insert = 0
            /\ store[args[r][1].v] # NoRow
            /\ pc[r] \in {"lookup", "touch_now", "touch_write", "done"}
            /\ pc[r] = "done" =>
                    /\ calls[r][2] = [get |-> 1, touch |-> 1, esi |-> 0, insert |-> 0]
                    /\ response[r].status = 200
                    /\ ResponseDistance(response[r]).distance_meters = FZero
                    /\ ResponseDistance(response[r]).distance_lightyears = FZero
                    /\ response[r].body.system_1 = response[r].body.system_2

\* a request naming one id twice, whose first resolution asked the Resolver,
\* was answered 200 for a system away from the origin
C28_Witness ==
    \E r \in Requests :
        /\ pc[r] = "done"
        /\ args[r][1].v = args[r][2].v
        /\ calls[r][1].esi = 1
        /\ calls[r][2].touch = 1
        /\ response[r].status = 200
        /\ system2[r].z # FZero

\* C29: short-circuit on first failure.  Within one /calculate-distance
\* request the two ids are resolved strictly in order, system_id_1 then
\* system_id_2: no Store operation and no Resolver call is made for
\* system_id_2 before the resolution of system_id_1 has returned its record,
\* and none at all if resolving system_id_1 fails.
C29_ShortCircuit ==
    /\ [](\A r \in Requests :
            /\ which[r] = 1 => calls[r][2] = NoCalls /\ system2[r] = NoRow
            /\ which[r] = 2 =>
                    /\ system1[r] # NoRow
                    /\ system1[r].system_id = args[r][1].v
                    /\ calls[r][1].get > 0
            /\ (pc[r] = "done" /\ response[r].status = 200) =>
                    system2[r].system_id = args[r][2].v)
    /\ [][\A r \in Requests :
            (calls'[r][2] # calls[r][2] /\ calls'[r][2] # NoCalls) =>
                /\ which[r] = 2
                /\ exc[r] = NoExc
                /\ system1[r] # NoRow
                /\ calls'[r][1] = calls[r][1]]_vars

\* the resolution of system_id_1 asked the Resolver and failed, and the
\* request was answered with no operation made for a different system_id_2
C29_Witness ==
    \E r \in Requests :
        /\ pc[r] = "done"
        /\ which[r] = 1
        /\ exc[r] # NoExc
        /\ calls[r][1].esi = 1
        /\ calls[r][2] = NoCalls
        /\ args[r][1].v # args[r][2].v

\* C30: no rollback across the two resolutions.  If system_id_1 misses the
\* cache and is resolved and inserted, and resolving system_id_2 then fails,
\* the request answers with the error status of the second failure and the
\* row for system_id_1 remains in the Store.
C30_NoRollback ==
    \A r \in Requests :
        (/\ pc[r] = "done"
         /\ which[r] = 2
         /\ exc[r] # NoExc
         /\ calls[r][1].insert = 1) =>
            /\ response[r] = ExceptionResponse(exc[r])
            /\ response[r].status \in {404, 500, 502}
            /\ ResolverFailed(r) =>
                    exc[r] = get_system_info(args[r][2].v, upstream[r]).exc
            /\ store[args[r][1].v] # NoRow
            /\ Fields(store[args[r][1].v]) = Fields(system1[r])

\* the first id was inserted, the Resolver answered 404 for the second, the
\* request was answered 404 and the row of the first id is in the Store
C30_Witness ==
    \E r \in Requests :
        /\ pc[r] = "done"
        /\ which[r] = 2
        /\ calls[r][1].insert = 1
        /\ upstream[r].status = 404
        /\ response[r].status = 404
        /\ store[args[r][1].v] # NoRow

\* C31: timestamp ordering. In every reachable state, concurrent requests
\* interleaved in any way and the clock never going back, every row of the
\* Store has added <= last_update: a touch reads the clock after its lookup
\* saw the row, so after the insert that fixed added.
C31_AddedBeforeLastUpdate ==
    \A k \in DOMAIN store :
        store[k] # NoRow => store[k].added <= store[k].last_update

\* a row touched after its insert, with another request about to overwrite
\* its last_update with an older clock read
C31_Witness ==
    \E k \in DOMAIN store : \E r \in Requests :
        /\ store[k] # NoRow
        /\ store[k].added < store[k].last_update
        /\ pc[r] = "touch_write"
        /\ system_id(r) = k
        /\ now[r] < store[k].last_update
        /\ store[k].added <= now[r]

\* C32: stale snapshot on hit.  On a cache hit get_or_fetch_system returns the
\* record its lookup read, before the touch: the last_update returned is the
\* one the row had when the call read it, while the Store holds the timestamp
\* the touch wrote.
C32_StaleSnapshot ==
    [][\A r \in Requests :
          /\ (pc[r] = "lookup" /\ pc'[r] = "touch_now") =>
                system_data'[r] = store[system_id(r)]
          /\ pc[r] \in {"touch_now", "touch_write"} =>
                system_data'[r] = system_data[r]
          /\ (pc[r] = "touch_write" /\ pc'[r] # "touch_write") =>
                LET record == IF which[r] = 1 THEN system1'[r] ELSE system2'[r]
                IN  /\ record.last_update = system_data[r].last_update
                    /\ Immutable(record) = Immutable(store'[system_id(r)])
                    /\ store'[system_id(r)].last_update = now[r]]_vars

\* a request served on its own got back, from a cache hit, a last_update
\* older than the one its touch left in the Store
C32_Witness ==
    \E r \in Requests :
        /\ Returned(r)
        /\ FrameCalls(r).touch = 1
        /\ ReturnValue(r).last_update < store[FrameId(r)].last_update
        /\ \A q \in Requests \ {r} : pc[q] = "idle"

\* the Resolver answered the call of the current frame with a record for an id
\* other than the one asked for
UpstreamIdMismatch(r) ==
    /\ esi_data[r] # NoData
    /\ esi_data[r].system_id # FrameId(r)

\* C33: upstream id mismatch.  When the Resolver returns a record whose
\* system_id differs from the requested id, the resolution inserts the row
\* under the upstream system_id, its re-lookup of the requested id finds
\* nothing, it ends with the 'after inserting' RuntimeError, and the Store
\* keeps the row keyed by the upstream id.
C33_UpstreamIdMismatch ==
    \A r \in Requests :
        UpstreamIdMismatch(r) =>
            /\ pc[r] \in {"insert_now", "insert_write", "relookup", "done"}
            /\ pc[r] \in {"relookup", "done"} =>
                  /\ FrameCalls(r).insert = 1
                  /\ store[esi_data[r].system_id] # NoRow
                  /\ Fields(store[esi_data[r].system_id]) = esi_data[r]
                  /\ store[FrameId(r)] = NoRow
            /\ pc[r] = "done" =>
                  /\ FrameCalls(r).get = 2
                  /\ exc[r] = ReadBackError(FrameId(r))
                  /\ response[r].status = 500

\* C34: no negative caching.  The get_or_fetch_system(id) call that follows a
\* call for id which failed in the Resolver (not found, timeout, connection
\* failure, error status, malformed payload) misses the cache and calls the
\* Resolver again; when the Resolver now returns the record of id, the call
\* inserts the row, reads it back and returns it, raising nothing.
C34_NoNegativeCaching ==
    [][\A r \in Requests :
          (failed # 0 /\ failed = system_id(r) /\ pc'[r] # pc[r]) =>
              /\ pc[r] = "lookup" =>
                    /\ system_data'[r] = NoRow
                    /\ pc'[r] = "fetch"
              /\ pc[r] = "fetch" =>
                    /\ calls'[r][which[r]].esi = 1
                    /\ upstream'[r] # NoUpstream
                    /\ get_system_info(failed, upstream'[r]).ok =>
                          pc'[r] = "insert_now" /\ exc'[r] = NoExc
              /\ (pc[r] = "insert_write" /\ esi_data[r].system_id = failed) =>
                    /\ store[failed] = NoRow
                    /\ Fields(store'[failed]) = esi_data[r]
                    /\ pc'[r] = "relookup"
              /\ (pc[r] = "relookup" /\ esi_data[r].system_id = failed) =>
                    LET record == IF which[r] = 1 THEN system1'[r] ELSE system2'[r]
                    IN  /\ exc'[r] = NoExc
                        /\ record = store[failed]
                        /\ Fields(record) = esi_data[r]
                        /\ pc'[r] = (IF which[r] = 1 THEN "lookup" ELSE "done")]_vars

\* the call that followed a failed resolution of its id has asked the Resolver
\* again, was given the record and has inserted it
C34_Witness ==
    \E r \in Requests :
        /\ pc[r] = "relookup"
        /\ failed = system_id(r)
        /\ esi_data[r].system_id = failed
        /\ store[failed] # NoRow
        /\ FrameCalls(r) = [get |-> 1, touch |-> 0, esi |-> 1, insert |-> 1]

====
